---- MODULE Spec2Model ----
(***************************************************************************)
(* GentlyTold memories worker: the moderation queue kept in the Cloudflare *)
(* KV namespace env.MEMORIES.  Every request is run by a stateless handler *)
(* whose awaits on KV get/put/delete are the points where other requests   *)
(* interleave; each await on the store is one step of the model.           *)
(*                                                                         *)
(* src/memories-worker/src/index.js holds two workers over the same keys:  *)
(* the first export default (submit writes memories:{slug} directly) and   *)
(* the second one (handleRequest, submit writes pending:{slug}).           *)
(*                                                                         *)
(* Two more workers of the repository keep their own state: the page       *)
(* generation API worker (X-API-Key, Claude, R2) and the draft-publish     *)
(* worker (KV namespace env.PAGES, draft:{id} and published:{id}).         *)
(***************************************************************************)
EXTENDS Integers, Sequences, FiniteSets, TLC

\* ------------------------------------------------------------------ bounds
MaxIds == 2
MaxOverlaps == 1
MaxTokens == 2
MaxApiCalls == 2
MaxDrafts == 2

\* ------------------------------------------------------- program constants
\* photo.size > 5 * 1024 * 1024
MaxPhotoBytes == 5 * 1024 * 1024

\* url.searchParams.get('token') is null or '' : !token
NoToken == 0

\* env.MASTER_ADMIN_KEY, and the X-Admin-Key values a caller may send
\* ("" stands for a missing header)
MASTER_ADMIN_KEY == "master"
AdminKeys == {"", "master", "guess"}

Slugs == {"jane-doe"}
Procs == {"h1", "h2"}

Tokens == 1..MaxTokens
Ids == 1..MaxIds

\* ---------------------------------------------------------------- strings
\* A string is a sequence of characters; " " is the whitespace character.
WS == {" "}

Anonymous == <<"A", "n", "o", "n", "y", "m", "o", "u", "s">>

RECURSIVE TrimStart(_)
TrimStart(s) ==
    IF s = <<>> THEN s
    ELSE IF Head(s) \in WS THEN TrimStart(Tail(s)) ELSE s

RECURSIVE TrimEnd(_)
TrimEnd(s) ==
    IF s = <<>> THEN s
    ELSE IF s[Len(s)] \in WS THEN TrimEnd(SubSeq(s, 1, Len(s) - 1)) ELSE s

\* String.prototype.trim
Trim(s) == TrimEnd(TrimStart(s))

\* variant: the field is stored as sent, without trim()
TrimmedOr_raw(form, k, dflt) ==
    IF k \in DOMAIN form /\ form[k] # <<>> THEN form[k] ELSE dflt

\* formData.get(k)?.trim() || dflt
TrimmedOr(form, k, dflt) ==
    IF k \in DOMAIN form /\ Trim(form[k]) # <<>> THEN Trim(form[k]) ELSE dflt

\* formData.get(k) || dflt
RawOr(form, k, dflt) ==
    IF k \in DOMAIN form /\ form[k] # <<>> THEN form[k] ELSE dflt

\* ------------------------------------------------------------ form inputs
\* multipart bodies of POST /api/memories/:slug
\* the photo part: exactly 5 MiB, one byte more, empty
PhotoAtLimit == [size |-> MaxPhotoBytes, type |-> "image/png"]
PhotoOverLimit == [size |-> MaxPhotoBytes + 1, type |-> ""]
PhotoEmpty == [size |-> 0, type |-> ""]

Forms ==
    { [memory |-> <<"a">>],
      [name |-> <<" ", "n">>, relationship |-> <<"r", " ">>,
       memory |-> <<" ", "b", " ">>, photo |-> PhotoAtLimit],
      [name |-> <<"n">>, memory |-> <<" ">>, photo |-> PhotoEmpty],
      [name |-> <<"n">>],
      [memory |-> <<"a">>, photo |-> PhotoOverLimit] }

HasPhoto(form) == "photo" \in DOMAIN form /\ form.photo.size > 0

\* ----------------------------------------------------------- KV namespace
\* env.MEMORIES.get(key, 'json') || []
GetList(kv, k) == IF k \in DOMAIN kv THEN kv[k] ELSE <<>>

\* variant: a put to a key that already has a value loses
Put_ifAbsent(kv, k, v) ==
    IF k \in DOMAIN kv THEN kv ELSE [x \in DOMAIN kv \cup {k} |-> IF x = k THEN v ELSE kv[x]]

\* env.MEMORIES.put(key, JSON.stringify(v))
Put(kv, k, v) == [x \in DOMAIN kv \cup {k} |-> IF x = k THEN v ELSE kv[x]]

\* env.MEMORIES.delete(key)
Delete(kv, k) == [x \in DOMAIN kv \ {k} |-> kv[x]]

\* photoKey = `${slug}-${id}`
PhotoKey(slug, id) == <<slug, id>>

\* memory.photoUrl = `/api/photo/${photoKey}`
PhotoUrl(key) == <<"/api/photo/">> \o key

\* variant: the photo URL itself is used as the key
KeyOfUrl_whole(url) == url

\* rejected.photoUrl.replace('/api/photo/', '')
KeyOfUrl(url) == IF url # <<>> /\ Head(url) = "/api/photo/" THEN Tail(url) ELSE url

\* JSON.stringify({ type: photo.type || 'image/jpeg', data: base64 })
PhotoRecord(photo) ==
    [type |-> IF photo.type = "" THEN "image/jpeg" ELSE photo.type,
     size |-> photo.size]

\* pending.findIndex(m => m.id === memoryId), 0 for -1
RECURSIVE FindFrom(_, _, _)
FindFrom(list, id, i) ==
    IF i > Len(list) THEN 0
    ELSE IF list[i].id = id THEN i ELSE FindFrom(list, id, i + 1)

\* variant: -1 is not told apart, and splice(-1, 1) takes the last element
findIndex_orLast(list, id) ==
    IF FindFrom(list, id, 1) = 0 THEN Len(list) ELSE FindFrom(list, id, 1)

findIndex(list, id) == FindFrom(list, id, 1)

\* variant: splice(idx + 1, 1), the element after the one found is removed
splice_next(list, idx) == SubSeq(list, 1, idx) \o SubSeq(list, idx + 2, Len(list))

\* pending.splice(idx, 1) : the list that remains
splice(list, idx) == SubSeq(list, 1, idx - 1) \o SubSeq(list, idx + 1, Len(list))

\* variant: the guard finds nothing
some_none(list, id) == FALSE

\* approved.some(m => m.id === memoryId)
some(list, id) == \E i \in 1..Len(list) : list[i].id = id

IdsOf(list) == {list[i].id : i \in 1..Len(list)}

Count(list, id) == Cardinality({i \in 1..Len(list) : list[i].id = id})

\* ------------------------------------------------------------------ state
VARIABLES
    pending,      \* KV pending:{slug}
    memories,     \* KV memories:{slug}, the approved (public) sequence
    admin,        \* KV admin:{slug}
    photo,        \* KV photo:{key}
    pc,           \* position of each request handler
    req,          \* the request a handler is serving
    loc,          \* the handler's local variables
    last,         \* the response sent by the latest step, if it sent one
    nextId,       \* crypto.randomUUID() for memories
    nextToken,    \* crypto.randomUUID() for admin tokens
    overlaps,     \* requests accepted so far while another was in flight
    api,          \* API worker: Claude calls, R2 photo writes and page builds made
    pages,        \* draft-publish worker: KV draft:{id} and published:{id}
    nextDraft,    \* draft-publish worker: crypto.randomUUID()
    telegram      \* draft-publish worker: messages posted to the Telegram API

vars == <<pending, memories, admin, photo, pc, req, loc, last,
          nextId, nextToken, overlaps, api, pages, nextDraft, telegram>>

\* the state of the two other workers, which the memories worker never touches
elsewhere == <<api, pages, nextDraft, telegram>>

store == <<pending, memories, admin, photo>>

NoReq == [op |-> "none"]
NoLoc == [none |-> TRUE]
NoLast == [req |-> NoReq, loc |-> NoLoc, status |-> 0, json |-> <<>>]

\* new Date().toISOString(): the instant of the request, one abstract value
Now == "now"

Init ==
    /\ pending = <<>>
    /\ memories = <<>>
    /\ admin = <<>>
    /\ photo = <<>>
    /\ pc = [p \in Procs |-> "idle"]
    /\ req = [p \in Procs |-> NoReq]
    /\ loc = [p \in Procs |-> NoLoc]
    /\ last = NoLast
    /\ nextId = 1
    /\ nextToken = 1
    /\ overlaps = 0
    /\ api = [claude |-> 0, r2 |-> 0, builds |-> 0]
    /\ pages = <<>>
    /\ nextDraft = 1
    /\ telegram = <<>>

\* function jsonResponse(data, status): the response to request r of a handler
\* whose locals are l
jsonResponse(r, l, data, status) == [req |-> r, loc |-> l, status |-> status, json |-> data]

\* handlers are interchangeable: h2 serves only a request that arrives while h1
\* is in flight, and h1 takes its next request once both are at rest
Overlapping(p) == p = "h2"

Free(p) ==
    /\ pc[p] = "idle"
    /\ IF Overlapping(p)
       THEN pc["h1"] # "idle" /\ overlaps < MaxOverlaps
       ELSE pc["h2"] = "idle"

Arrive(p) == overlaps' = IF Overlapping(p) THEN overlaps + 1 ELSE overlaps

\* a handler takes request r and moves to position at with locals l
Accept(p, r, at, l) ==
    /\ req' = [req EXCEPT ![p] = r]
    /\ loc' = [loc EXCEPT ![p] = l]
    /\ pc' = [pc EXCEPT ![p] = at]
    /\ last' = NoLast
    /\ Arrive(p)

\* a handler answers request r before its first await on the store
Answer(p, r, data, status) ==
    /\ last' = jsonResponse(r, NoLoc, data, status)
    /\ Arrive(p)
    /\ UNCHANGED <<pc, req, loc>>

\* a handler in flight returns its response and is free again
Return(p, data, status) ==
    /\ last' = jsonResponse(req[p], loc[p], data, status)
    /\ pc' = [pc EXCEPT ![p] = "idle"]
    /\ req' = [req EXCEPT ![p] = NoReq]
    /\ loc' = [loc EXCEPT ![p] = NoLoc]
    /\ UNCHANGED overlaps

\* a handler in flight moves on to position at with locals l
Goto(p, at, l) ==
    /\ pc' = [pc EXCEPT ![p] = at]
    /\ loc' = [loc EXCEPT ![p] = l]
    /\ last' = NoLast
    /\ UNCHANGED <<req, overlaps>>

\* variant: photo.size >= 5 * 1024 * 1024
PhotoTooLarge_atLimit(ph) == ph.size >= MaxPhotoBytes

\* if (photo.size > 5 * 1024 * 1024)
PhotoTooLarge(ph) == ph.size > MaxPhotoBytes

\* const id = crypto.randomUUID(): a value never returned before
randomUUID == nextId

\* ---------------------------------------- POST /api/memories/:slug (submit)
\* handleRequest: build the memory, validate text and photo size
Submit(p, slug, form) ==
    LET r == [op |-> "submit", slug |-> slug, form |-> form]
        memory == [id |-> randomUUID,
                   name |-> TrimmedOr(form, "name", Anonymous),
                   relationship |-> TrimmedOr(form, "relationship", <<>>),
                   memory |-> TrimmedOr(form, "memory", <<>>),
                   date |-> Now]
    IN  /\ Free(p)
        /\ IF memory.memory = <<>>
           THEN /\ Answer(p, r, [error |-> "Memory text is required"], 400)
                /\ UNCHANGED nextId
           ELSE IF HasPhoto(form) /\ PhotoTooLarge(form.photo)
           THEN /\ Answer(p, r, [error |-> "Photo must be under 5MB"], 400)
                /\ UNCHANGED nextId
           ELSE /\ nextId <= MaxIds
                /\ nextId' = nextId + 1
                /\ Accept(p, r, IF HasPhoto(form) THEN "s_putPhoto" ELSE "s_getPending",
                          [memory |-> memory])
        /\ UNCHANGED <<store, nextToken>>

\* await request.formData() throws on a body that is not form data; the
\* exception escapes handleRequest and fetch answers 500 with its message
SubmitBadBody(p, slug) ==
    /\ Free(p)
    /\ Answer(p, [op |-> "submitNotForm", slug |-> slug],
              [error |-> "Internal server error", detail |-> "formData: body is not form data"],
              500)
    /\ UNCHANGED <<store, nextId, nextToken>>

\* await env.MEMORIES.put(`photo:${photoKey}`, ...); memory.photoUrl = ...
SubmitPutPhoto(p) ==
    LET key == PhotoKey(req[p].slug, loc[p].memory.id) IN
    /\ pc[p] = "s_putPhoto"
    /\ photo' = Put(photo, key, PhotoRecord(req[p].form.photo))
    /\ Goto(p, "s_getPending", [memory |-> loc[p].memory @@ [photoUrl |-> PhotoUrl(key)]])
    /\ UNCHANGED <<pending, memories, admin, nextId, nextToken>>

\* btoa(String.fromCharCode(...new Uint8Array(arrayBuf))) passes one argument per
\* byte of the photo; whether the engine takes that many arguments is not fixed
\* by the source.  When it throws, fetch catches and answers 500.
SubmitEncodeThrows(p) ==
    /\ pc[p] = "s_putPhoto"
    /\ Return(p, [error |-> "Internal server error",
                  detail |-> "fromCharCode: too many arguments"], 500)
    /\ UNCHANGED <<store, nextId, nextToken>>

\* const pending = await env.MEMORIES.get(`pending:${slug}`) || []; pending.push(memory)
SubmitGetPending(p) ==
    /\ pc[p] = "s_getPending"
    /\ Goto(p, "s_putPending",
            [memory |-> loc[p].memory,
             pending |-> Append(GetList(pending, req[p].slug), loc[p].memory)])
    /\ UNCHANGED <<store, nextId, nextToken>>

\* await env.MEMORIES.put(`pending:${slug}`, JSON.stringify(pending))
SubmitPutPending(p) ==
    /\ pc[p] = "s_putPending"
    /\ pending' = Put(pending, req[p].slug, loc[p].pending)
    /\ Goto(p, "s_notify", loc[p])
    /\ UNCHANGED <<memories, admin, photo, nextId, nextToken>>

\* what the notification attempt meets: env.TELEGRAM_BOT_TOKEN is not set, the
\* Telegram request is sent, or fetch throws
NotifyOutcomes == {"noBotToken", "sent", "fetchThrew"}

\* variant: the Telegram request is not wrapped in try/catch
NotificationError_uncaught(outcome) ==
    IF outcome = "fetchThrew" THEN "fetch failed" ELSE ""

\* the exception sendTelegramNotification lets escape, "" for none:
\* if (!env.TELEGRAM_BOT_TOKEN) return; try { await fetch(...) } catch (e) { console.error }
NotificationError(outcome) ==
    CASE outcome = "noBotToken" -> ""
      [] outcome = "sent" -> ""
      [] outcome = "fetchThrew" -> ""

\* await sendTelegramNotification(env, slug, memory); then the success response,
\* or the 500 of the top-level catch when the call throws
sendTelegramNotification(p, outcome) ==
    LET e == NotificationError(outcome)
        l == loc[p] @@ [notify |-> outcome]
    IN  /\ pc[p] = "s_notify"
        /\ last' = IF e # ""
                   THEN jsonResponse(req[p], l,
                            [error |-> "Internal server error", detail |-> e], 500)
                   ELSE jsonResponse(req[p], l,
                            [success |-> TRUE, message |-> "Memory submitted for review"], 200)
        /\ pc' = [pc EXCEPT ![p] = "idle"]
        /\ req' = [req EXCEPT ![p] = NoReq]
        /\ loc' = [loc EXCEPT ![p] = NoLoc]
        /\ UNCHANGED <<store, nextId, nextToken, overlaps>>

\* ------------------- first export default: POST /api/memories/:slug (legacy)
LegacySubmit(p, slug, form) ==
    LET r == [op |-> "legacySubmit", slug |-> slug, form |-> form]
        memory == [id |-> randomUUID,
                   name |-> RawOr(form, "name", Anonymous),
                   relationship |-> RawOr(form, "relationship", <<>>),
                   memory |-> RawOr(form, "memory", <<>>),
                   date |-> Now]
    IN  /\ Free(p)
        /\ IF HasPhoto(form) /\ PhotoTooLarge(form.photo)
           THEN /\ Answer(p, r, [error |-> "Photo must be under 5MB"], 400)
                /\ UNCHANGED nextId
           ELSE /\ nextId <= MaxIds
                /\ nextId' = nextId + 1
                /\ Accept(p, r, IF HasPhoto(form) THEN "l_putPhoto" ELSE "l_getMemories",
                          [memory |-> memory])
        /\ UNCHANGED <<store, nextToken>>

LegacyPutPhoto(p) ==
    LET key == PhotoKey(req[p].slug, loc[p].memory.id) IN
    /\ pc[p] = "l_putPhoto"
    /\ photo' = Put(photo, key, PhotoRecord(req[p].form.photo))
    /\ Goto(p, "l_getMemories", [memory |-> loc[p].memory @@ [photoUrl |-> PhotoUrl(key)]])
    /\ UNCHANGED <<pending, memories, admin, nextId, nextToken>>

\* the same encoding in the first export default: catch (e) answers 500
LegacyEncodeThrows(p) ==
    /\ pc[p] = "l_putPhoto"
    /\ Return(p, [error |-> "fromCharCode: too many arguments"], 500)
    /\ UNCHANGED <<store, nextId, nextToken>>

\* const existing = await env.MEMORIES.get(`memories:${slug}`) || []; existing.push(memory)
LegacyGetMemories(p) ==
    /\ pc[p] = "l_getMemories"
    /\ Goto(p, "l_putMemories",
            [memory |-> loc[p].memory,
             existing |-> Append(GetList(memories, req[p].slug), loc[p].memory)])
    /\ UNCHANGED <<store, nextId, nextToken>>

\* await env.MEMORIES.put(`memories:${slug}`, ...); return { success: true, memory }
LegacyPutMemories(p) ==
    /\ pc[p] = "l_putMemories"
    /\ memories' = Put(memories, req[p].slug, loc[p].existing)
    /\ Return(p, [success |-> TRUE, memory |-> loc[p].memory], 200)
    /\ UNCHANGED <<pending, admin, photo, nextId, nextToken>>

\* ------------------------------------------------------------ moderation
\* variant: a collection without admin record accepts any token
validateAdminToken_noRecordOk(slug, token) ==
    IF token = NoToken THEN "Missing token"
    ELSE IF slug \in DOMAIN admin /\ admin[slug].token # token THEN "Invalid token"
    ELSE ""

\* variant: the token of any collection's admin record is accepted
validateAdminToken_anySlug(slug, token) ==
    IF token = NoToken THEN "Missing token"
    ELSE IF slug \notin DOMAIN admin THEN "No admin configured for this memorial"
    ELSE IF \A s \in DOMAIN admin : admin[s].token # token THEN "Invalid token"
    ELSE ""

\* variant: the stored token is not compared with the one presented
validateAdminToken_anyToken(slug, token) ==
    IF token = NoToken THEN "Missing token"
    ELSE IF slug \notin DOMAIN admin THEN "No admin configured for this memorial"
    ELSE ""

\* async function validateAdminToken(env, slug, token): "" stands for null
validateAdminToken(slug, token) ==
    IF token = NoToken THEN "Missing token"
    ELSE IF slug \notin DOMAIN admin THEN "No admin configured for this memorial"
    ELSE IF admin[slug].token # token THEN "Invalid token"
    ELSE ""

\* GET /api/pending/:slug, POST /api/approve/:slug/:id, POST /api/reject/:slug/:id
\* arrive with the token of the query string
Moderate(p, op, slug, memoryId, token) ==
    /\ Free(p)
    /\ Accept(p, [op |-> op, slug |-> slug, memoryId |-> memoryId, token |-> token],
              "auth", NoLoc)
    /\ UNCHANGED <<store, nextId, nextToken>>

\* const authError = await validateAdminToken(env, slug, token);
\* if (authError) return jsonResponse({ error: authError }, 403)
Authorize(p) ==
    LET authError == validateAdminToken(req[p].slug, req[p].token) IN
    /\ pc[p] = "auth"
    /\ IF authError # ""
       THEN Return(p, [error |-> authError], 403)
       ELSE Goto(p, CASE req[p].op = "listPending" -> "lp_getPending"
                      [] req[p].op = "approve" -> "a_getPending"
                      [] req[p].op = "reject" -> "r_getPending", loc[p])
    /\ UNCHANGED <<store, nextId, nextToken>>

\* GET /api/pending/:slug : return the pending sequence
ListPending(p) ==
    /\ pc[p] = "lp_getPending"
    /\ Return(p, GetList(pending, req[p].slug), 200)
    /\ UNCHANGED <<store, nextId, nextToken>>

\* approve: get pending, findIndex, splice
ApproveGetPending(p) ==
    LET pend == GetList(pending, req[p].slug)
        idx == findIndex(pend, req[p].memoryId)
    IN  /\ pc[p] = "a_getPending"
        /\ IF idx = 0
           THEN Return(p, [error |-> "Memory not found in pending queue"], 404)
           ELSE Goto(p, "a_getMemories",
                     [memory |-> pend[idx], pending |-> splice(pend, idx)])
        /\ UNCHANGED <<store, nextId, nextToken>>

\* approve: get memories, guard against duplicate approvals, approved.push(memory)
ApproveGetMemories(p) ==
    LET approved == GetList(memories, req[p].slug) IN
    /\ pc[p] = "a_getMemories"
    /\ IF some(approved, req[p].memoryId)
       THEN Goto(p, "a_putPendingDup", loc[p])
       ELSE Goto(p, "a_putPending",
                 [memory |-> loc[p].memory, pending |-> loc[p].pending,
                  approved |-> Append(approved, loc[p].memory)])
    /\ UNCHANGED <<store, nextId, nextToken>>

\* duplicate: put pending, return 409
ApproveDuplicate(p) ==
    /\ pc[p] = "a_putPendingDup"
    /\ pending' = Put(pending, req[p].slug, loc[p].pending)
    /\ Return(p, [error |-> "Memory already approved"], 409)
    /\ UNCHANGED <<memories, admin, photo, nextId, nextToken>>

\* await env.MEMORIES.put(`pending:${slug}`, JSON.stringify(pending))
ApprovePutPending(p) ==
    /\ pc[p] = "a_putPending"
    /\ pending' = Put(pending, req[p].slug, loc[p].pending)
    /\ Goto(p, "a_putMemories", loc[p])
    /\ UNCHANGED <<memories, admin, photo, nextId, nextToken>>

\* await env.MEMORIES.put(`memories:${slug}`, JSON.stringify(approved)); return success
ApprovePutMemories(p) ==
    /\ pc[p] = "a_putMemories"
    /\ memories' = Put(memories, req[p].slug, loc[p].approved)
    /\ Return(p, [success |-> TRUE, message |-> "Memory approved",
                  remaining |-> Len(loc[p].pending)], 200)
    /\ UNCHANGED <<pending, admin, photo, nextId, nextToken>>

\* reject: get pending, findIndex, splice
RejectGetPending(p) ==
    LET pend == GetList(pending, req[p].slug)
        idx == findIndex(pend, req[p].memoryId)
    IN  /\ pc[p] = "r_getPending"
        /\ IF idx = 0
           THEN Return(p, [error |-> "Memory not found in pending queue"], 404)
           ELSE Goto(p, IF "photoUrl" \in DOMAIN pend[idx]
                        THEN "r_deletePhoto" ELSE "r_putPending",
                     [rejected |-> pend[idx], pending |-> splice(pend, idx)])
        /\ UNCHANGED <<store, nextId, nextToken>>

\* await env.MEMORIES.delete(`photo:${photoKey}`)
RejectDeletePhoto(p) ==
    /\ pc[p] = "r_deletePhoto"
    /\ photo' = Delete(photo, KeyOfUrl(loc[p].rejected.photoUrl))
    /\ Goto(p, "r_putPending", loc[p])
    /\ UNCHANGED <<pending, memories, admin, nextId, nextToken>>

\* await env.MEMORIES.put(`pending:${slug}`, JSON.stringify(pending)); return success
RejectPutPending(p) ==
    /\ pc[p] = "r_putPending"
    /\ pending' = Put(pending, req[p].slug, loc[p].pending)
    /\ Return(p, [success |-> TRUE, message |-> "Memory rejected",
                  remaining |-> Len(loc[p].pending)], 200)
    /\ UNCHANGED <<memories, admin, photo, nextId, nextToken>>

\* ------------------------------------------------------ POST /api/admin/:slug
\* request bodies: not JSON, or { email, name }
Bodies == {[valid |-> FALSE], [valid |-> TRUE, email |-> "e", name |-> ""]}

\* the admin record written for a request body
AdminRecord(token, body) ==
    [token |-> token, email |-> body.email, name |-> body.name, createdAt |-> Now]

\* variant: if (masterKey && masterKey !== env.MASTER_ADMIN_KEY)
InvalidAdminKey_missingOk(masterKey) == masterKey # "" /\ masterKey # MASTER_ADMIN_KEY

\* if (!masterKey || masterKey !== env.MASTER_ADMIN_KEY)
InvalidAdminKey(masterKey) == masterKey = "" \/ masterKey # MASTER_ADMIN_KEY

\* variant: an existing admin record is kept
PutAdmin_keepFirst(slug, record) ==
    IF slug \in DOMAIN admin THEN admin ELSE Put(admin, slug, record)

\* await env.MEMORIES.put(`admin:${slug}`, JSON.stringify(admin))
PutAdmin(slug, record) == Put(admin, slug, record)

ProvisionAdmin(p, slug, masterKey, body) ==
    LET r == [op |-> "provisionAdmin", slug |-> slug, masterKey |-> masterKey,
              body |-> body]
    IN  /\ Free(p)
        /\ IF InvalidAdminKey(masterKey)
           THEN /\ Answer(p, r, [error |-> "Invalid admin key"], 403)
                /\ UNCHANGED <<admin, nextToken>>
           ELSE IF ~body.valid
           THEN /\ Answer(p, r, [error |-> "Invalid JSON body"], 400)
                /\ UNCHANGED <<admin, nextToken>>
           ELSE /\ nextToken <= MaxTokens
                /\ admin' = PutAdmin(slug, AdminRecord(nextToken, body))
                /\ nextToken' = nextToken + 1
                /\ Answer(p, r, [success |-> TRUE, token |-> nextToken], 200)
        /\ UNCHANGED <<pending, memories, photo, nextId>>

\* ---------------------------------------------------------------- public reads
\* variant: the pending key is read instead of the memories key
ListApproved_pending(p, slug) ==
    /\ Free(p)
    /\ Answer(p, [op |-> "listApproved", slug |-> slug], GetList(pending, slug), 200)
    /\ UNCHANGED <<store, nextId, nextToken>>

\* GET /api/memories/:slug
ListApproved(p, slug) ==
    /\ Free(p)
    /\ Answer(p, [op |-> "listApproved", slug |-> slug], GetList(memories, slug), 200)
    /\ UNCHANGED <<store, nextId, nextToken>>

\* GET /api/photo/:key
GetPhoto(p, key) ==
    /\ Free(p)
    /\ IF key \in DOMAIN photo
       THEN Answer(p, [op |-> "photo", key |-> key], photo[key], 200)
       ELSE Answer(p, [op |-> "photo", key |-> key], [error |-> "Not found"], 404)
    /\ UNCHANGED <<store, nextId, nextToken>>

\* the isolate serving a request dies between two awaits: no response is sent
Crash(p) ==
    /\ pc[p] # "idle"
    /\ last' = jsonResponse(req[p], loc[p], <<>>, 0)
    /\ pc' = [pc EXCEPT ![p] = "idle"]
    /\ req' = [req EXCEPT ![p] = NoReq]
    /\ loc' = [loc EXCEPT ![p] = NoLoc]
    /\ UNCHANGED <<store, nextId, nextToken, overlaps, elsewhere>>

\* -------------------------------------------------------------- specification
ModerationOps == {"listPending", "approve", "reject"}

Start(p) ==
    \/ \E slug \in Slugs, form \in Forms : Submit(p, slug, form) /\ UNCHANGED elsewhere
    \/ \E slug \in Slugs : SubmitBadBody(p, slug) /\ UNCHANGED elsewhere
    \/ \E slug \in Slugs, form \in Forms : LegacySubmit(p, slug, form) /\ UNCHANGED elsewhere
    \/ \E op \in ModerationOps, slug \in Slugs, id \in Ids, token \in {NoToken} \cup Tokens :
           Moderate(p, op, slug, id, token) /\ UNCHANGED elsewhere
    \/ \E slug \in Slugs, key \in AdminKeys, body \in Bodies :
           ProvisionAdmin(p, slug, key, body) /\ UNCHANGED elsewhere
    \/ \E slug \in Slugs : ListApproved(p, slug) /\ UNCHANGED elsewhere
    \/ \E slug \in Slugs, id \in Ids : GetPhoto(p, PhotoKey(slug, id)) /\ UNCHANGED elsewhere

\* the steps a handler takes when no other request is in flight
StepAlone(p) ==
    \/ SubmitPutPhoto(p) /\ UNCHANGED elsewhere
    \/ SubmitEncodeThrows(p) /\ UNCHANGED elsewhere
    \/ SubmitGetPending(p) /\ UNCHANGED elsewhere
    \/ SubmitPutPending(p) /\ UNCHANGED elsewhere
    \/ \E outcome \in NotifyOutcomes : sendTelegramNotification(p, outcome) /\ UNCHANGED elsewhere
    \/ LegacyPutPhoto(p) /\ UNCHANGED elsewhere
    \/ LegacyEncodeThrows(p) /\ UNCHANGED elsewhere
    \/ LegacyGetMemories(p) /\ UNCHANGED elsewhere
    \/ LegacyPutMemories(p) /\ UNCHANGED elsewhere
    \/ Authorize(p) /\ UNCHANGED elsewhere
    \/ ListPending(p) /\ UNCHANGED elsewhere
    \/ ApproveGetPending(p) /\ UNCHANGED elsewhere
    \/ ApproveGetMemories(p) /\ UNCHANGED elsewhere
    \/ ApprovePutPending(p) /\ UNCHANGED elsewhere
    \/ ApprovePutMemories(p) /\ UNCHANGED elsewhere
    \/ RejectGetPending(p) /\ UNCHANGED elsewhere
    \/ RejectDeletePhoto(p) /\ UNCHANGED elsewhere
    \/ RejectPutPending(p) /\ UNCHANGED elsewhere

\* the duplicate guard of approve runs only after a stale write of an
\* overlapping request (NoDuplicateAlone)
Step(p) ==
    \/ StepAlone(p)
    \/ ApproveDuplicate(p) /\ UNCHANGED elsewhere

\* requests overlap: any handler may take its next step, or die
Next == \E p \in Procs : Start(p) \/ Step(p) \/ Crash(p)

Spec == Init /\ [][Next]_vars

\* one request at a time, each run to its response
Alone(p) == \A q \in Procs \ {p} : pc[q] = "idle"

NextSerial == \E p \in Procs : Alone(p) /\ (Start(p) \/ StepAlone(p))

SpecSerial == Init /\ [][NextSerial]_vars

\* overlapping submit, approve and reject requests of handleRequest alone:
\* text-only submissions, an admin provisioned with the master key, no crash
StartRace(p) ==
    \/ \E slug \in Slugs : Submit(p, slug, [memory |-> <<"a">>]) /\ UNCHANGED elsewhere
    \/ \E op \in {"approve", "reject"}, slug \in Slugs, id \in Ids, token \in Tokens :
           Moderate(p, op, slug, id, token) /\ UNCHANGED elsewhere
    \/ \E slug \in Slugs :
           /\ ProvisionAdmin(p, slug, MASTER_ADMIN_KEY, [valid |-> TRUE, email |-> "e", name |-> ""])
           /\ UNCHANGED elsewhere

StepRace(p) ==
    \/ SubmitGetPending(p) /\ UNCHANGED elsewhere
    \/ SubmitPutPending(p) /\ UNCHANGED elsewhere
    \/ \E outcome \in NotifyOutcomes : sendTelegramNotification(p, outcome) /\ UNCHANGED elsewhere
    \/ Authorize(p) /\ UNCHANGED elsewhere
    \/ ApproveGetPending(p) /\ UNCHANGED elsewhere
    \/ ApproveGetMemories(p) /\ UNCHANGED elsewhere
    \/ ApproveDuplicate(p) /\ UNCHANGED elsewhere
    \/ ApprovePutPending(p) /\ UNCHANGED elsewhere
    \/ ApprovePutMemories(p) /\ UNCHANGED elsewhere
    \/ RejectGetPending(p) /\ UNCHANGED elsewhere
    \/ RejectPutPending(p) /\ UNCHANGED elsewhere

NextRace == \E p \in Procs : StartRace(p) \/ StepRace(p)

SpecRace == Init /\ [][NextRace]_vars

\* two collections, one request at a time: submissions with a photo, approve
\* and reject with any token, admins provisioned with the master key
TwoSlugs == {"jane-doe", "john-roe"}

StartSlugs(p) ==
    \/ \E slug \in TwoSlugs :
           /\ Submit(p, slug, [memory |-> <<"a">>, photo |-> PhotoAtLimit])
           /\ UNCHANGED elsewhere
    \/ \E op \in {"approve", "reject"}, slug \in TwoSlugs, id \in Ids, token \in Tokens :
           Moderate(p, op, slug, id, token) /\ UNCHANGED elsewhere
    \/ \E slug \in TwoSlugs :
           /\ ProvisionAdmin(p, slug, MASTER_ADMIN_KEY, [valid |-> TRUE, email |-> "e", name |-> ""])
           /\ UNCHANGED elsewhere

StepSlugs(p) ==
    \/ SubmitPutPhoto(p) /\ UNCHANGED elsewhere
    \/ SubmitGetPending(p) /\ UNCHANGED elsewhere
    \/ SubmitPutPending(p) /\ UNCHANGED elsewhere
    \/ sendTelegramNotification(p, "sent") /\ UNCHANGED elsewhere
    \/ Authorize(p) /\ UNCHANGED elsewhere
    \/ ApproveGetPending(p) /\ UNCHANGED elsewhere
    \/ ApproveGetMemories(p) /\ UNCHANGED elsewhere
    \/ ApprovePutPending(p) /\ UNCHANGED elsewhere
    \/ ApprovePutMemories(p) /\ UNCHANGED elsewhere
    \/ RejectGetPending(p) /\ UNCHANGED elsewhere
    \/ RejectDeletePhoto(p) /\ UNCHANGED elsewhere
    \/ RejectPutPending(p) /\ UNCHANGED elsewhere

NextSlugs == \E p \in Procs : Alone(p) /\ (StartSlugs(p) \/ StepSlugs(p))

SpecSlugs == Init /\ [][NextSlugs]_vars

\* under SpecSerial approve never reaches its duplicate guard
NoDuplicateAlone == \A p \in Procs : pc[p] # "a_putPendingDup"

\* ================================================= page-generation API worker
\* env.API_KEY, and the X-API-Key values a caller may send ("" stands for a
\* missing header: request.headers.get returns null, and !apiKey holds of both)
API_KEY == "key"
ApiKeys == {"", "key", "guess"}

ApiMethods == {"OPTIONS", "GET", "POST"}
ApiPaths == {"/api/health", "/api/generate", "/api/upload", "/api/build", "/other"}

\* request bodies: not JSON, JSON with or without a name, multipart form data
\* with or without a slug and with files File entries
ApiBodies ==
    {[kind |-> "text"],
     [kind |-> "json", name |-> ""],
     [kind |-> "json", name |-> "ann"],
     [kind |-> "multipart", slug |-> "", files |-> 1],
     [kind |-> "multipart", slug |-> "ann", files |-> 0],
     [kind |-> "multipart", slug |-> "ann", files |-> 1]}

\* what api.anthropic.com answers: a parsable text, a status that is not ok,
\* a text that holds no JSON
ClaudeOutcomes == {"ok", "notOk", "unparsable"}

\* what a handler did and answered
Handled(status, data, claude, r2, builds) ==
    [status |-> status, json |-> data, claude |-> claude, r2 |-> r2, builds |-> builds]

\* a response sent without running a handler
Unhandled(status, data) == Handled(status, data, 0, 0, 0)

NoAuthError == Unhandled(0, <<>>)

\* variant: only a key that is present and wrong is refused
checkAuth_missingOk(apiKey) ==
    IF apiKey # "" /\ apiKey # API_KEY
    THEN Unhandled(401, [error |-> "Unauthorized"])
    ELSE NoAuthError

\* function checkAuth(request, env): the 401 response, or null
checkAuth(apiKey) ==
    IF apiKey = "" \/ apiKey # API_KEY
    THEN Unhandled(401, [error |-> "Unauthorized"])
    ELSE NoAuthError

\* the catch of fetch: request.json() and request.formData() throw on a body
\* of another kind
InternalError == Unhandled(500, [error |-> "Internal server error"])

\* async function handleGenerate(request, env)
handleGenerate(body, outcome) ==
    IF body.kind # "json" THEN InternalError
    ELSE IF body.name = "" THEN Unhandled(400, [error |-> "Missing required field: name"])
    ELSE IF outcome = "notOk" THEN Handled(502, [error |-> "AI generation failed"], 1, 0, 0)
    ELSE IF outcome = "unparsable"
         THEN Handled(502, [error |-> "Failed to parse AI response"], 1, 0, 0)
    ELSE Handled(200, [success |-> TRUE], 1, 0, 0)

\* async function handleUpload(request, env): one R2 put for each File entry
handleUpload(body) ==
    IF body.kind # "multipart" THEN Unhandled(400, [error |-> "Expected multipart/form-data"])
    ELSE IF body.slug = "" THEN Unhandled(400, [error |-> "Missing required field: slug"])
    ELSE IF body.files = 0 THEN Unhandled(400, [error |-> "No files found in upload"])
    ELSE Handled(200, [success |-> TRUE, count |-> body.files], 0, body.files, 0)

\* async function handleBuild(request, env)
handleBuild(body) ==
    IF body.kind # "json" THEN InternalError
    ELSE IF body.name = "" THEN Unhandled(400, [error |-> "Missing required field: name"])
    ELSE Handled(200, [html |-> body.name], 0, 0, 1)

\* async fetch(request, env, ctx) of the API worker
ApiRoute(method, path, apiKey, body, outcome) ==
    IF method = "OPTIONS" THEN Unhandled(204, <<>>)
    ELSE IF path = "/api/health" /\ method = "GET" THEN Unhandled(200, [status |-> "ok"])
    ELSE IF checkAuth(apiKey) # NoAuthError THEN checkAuth(apiKey)
    ELSE IF path = "/api/generate" /\ method = "POST" THEN handleGenerate(body, outcome)
    ELSE IF path = "/api/upload" /\ method = "POST" THEN handleUpload(body)
    ELSE IF path = "/api/build" /\ method = "POST" THEN handleBuild(body)
    ELSE Unhandled(404, [error |-> "Not found"])

\* one request to the API worker, from its arrival to its response
ApiFetch(method, path, apiKey, body, outcome) ==
    LET r == [op |-> "api", method |-> method, path |-> path, apiKey |-> apiKey,
              body |-> body]
        h == ApiRoute(method, path, apiKey, body, outcome)
    IN /\ api.claude + h.claude <= MaxApiCalls
       /\ api.r2 + h.r2 <= MaxApiCalls
       /\ api.builds + h.builds <= MaxApiCalls
       /\ api' = [claude |-> api.claude + h.claude, r2 |-> api.r2 + h.r2,
                  builds |-> api.builds + h.builds]
       /\ last' = jsonResponse(r, NoLoc, h.json, h.status)
       /\ UNCHANGED <<store, pc, req, loc, nextId, nextToken, overlaps,
                      pages, nextDraft, telegram>>

\* the answer of api.anthropic.com is an input of the requests that ask for it
NextApi ==
    \E method \in ApiMethods, path \in ApiPaths, apiKey \in ApiKeys, body \in ApiBodies :
        \E outcome \in IF ApiRoute(method, path, apiKey, body, "ok").claude > 0
                        THEN ClaudeOutcomes ELSE {"ok"} :
            ApiFetch(method, path, apiKey, body, outcome)

SpecApi == Init /\ [][NextApi]_vars

\* ====================================================== draft-publish worker
\* request bodies of POST /api/submit: not JSON, JSON without personName1 and
\* name, JSON with a name and a story
DraftBodies ==
    {[json |-> FALSE],
     [json |-> TRUE, name |-> "", story |-> "s1"],
     [json |-> TRUE, name |-> "ann", story |-> "s1"],
     [json |-> TRUE, name |-> "ann", story |-> "s2"]}

\* function generateSlug(name, partnerName): the base made of the name, then
\* the first characters of a crypto.randomUUID(); names of the model are lower
\* case letters, which the replacements keep
generateSlug(name, suffix) == <<name, suffix>>

\* the ids a request may name in /preview/{id}, /api/approve/{id}, /m/{id}
DraftIds == {generateSlug("ann", n) : n \in 1..MaxDrafts}

\* the ?token= values a caller may send
DraftTokens == 1..MaxDrafts

DraftKey(id) == <<"draft", id>>
PublishedKey(id) == <<"published", id>>

\* renderMemorialPage(mapFormToPageData(body))
renderMemorialPage(body) == [name |-> body.name, story |-> body.story]

\* const draft = { html, data: pageData, formData: body, token, ... }
DraftRecord(body, token) ==
    [html |-> renderMemorialPage(body), data |-> [name |-> body.name],
     formData |-> body, token |-> token, createdAt |-> Now]

\* const published = { html: draft.html, data: draft.data, ..., publishedAt }
PublishedRecord(draft) ==
    [html |-> draft.html, data |-> draft.data, createdAt |-> draft.createdAt,
     publishedAt |-> Now]

\* function successPage(displayName, permanentUrl, alreadyPublished)
successPage(displayName, permanentUrl, alreadyPublished) ==
    [heading |-> IF alreadyPublished THEN "Already Published" ELSE "Memorial Published!",
     url |-> permanentUrl]

\* variant: every token is taken for the draft's token
InvalidToken_never(draft, token) == FALSE

\* if (draft.token !== token)
InvalidToken(draft, token) == draft.token # token

\* the memories worker's state, which the draft-publish worker never touches
DraftFrame == UNCHANGED <<store, nextId, nextToken, api>>

\* ------------------------------------------------------------ POST /api/submit
\* handleSubmit: parse the body, make the slug, the token and the page
DraftSubmit(p, body) ==
    LET r == [op |-> "draftSubmit", body |-> body]
    IN /\ Free(p)
       /\ IF ~body.json
          THEN /\ Answer(p, r, [error |-> "Invalid JSON body"], 400)
               /\ UNCHANGED nextDraft
          ELSE IF body.name = ""
          THEN /\ Answer(p, r, [error |-> "Missing required field: personName1 (or name)"], 400)
               /\ UNCHANGED nextDraft
          ELSE /\ nextDraft <= MaxDrafts
               /\ Accept(p, r, "d_putDraft",
                         [id |-> generateSlug(body.name, nextDraft),
                          draft |-> DraftRecord(body, nextDraft)])
               /\ nextDraft' = nextDraft + 1
       /\ UNCHANGED <<pages, telegram>>
       /\ DraftFrame

\* await env.PAGES.put(`draft:${slug}`, JSON.stringify(draft))
DraftPutDraft(p) ==
    /\ pc[p] = "d_putDraft"
    /\ pages' = Put(pages, DraftKey(loc[p].id), loc[p].draft)
    /\ Return(p, [success |-> TRUE, previewUrl |-> loc[p].id, id |-> loc[p].id], 200)
    /\ UNCHANGED <<nextDraft, telegram>>
    /\ DraftFrame

\* ----------------------------------------------------------- GET /preview/{id}
\* handlePreview: the draft's page with the banner that links to approve
DraftPreview(p, id) ==
    LET r == [op |-> "draftPreview", id |-> id]
    IN /\ Free(p)
       /\ IF DraftKey(id) \in DOMAIN pages
          THEN Answer(p, r, [html |-> pages[DraftKey(id)].html,
                             approveToken |-> pages[DraftKey(id)].token], 200)
          ELSE Answer(p, r, [heading |-> "Draft Not Found"], 404)
       /\ UNCHANGED <<pages, nextDraft, telegram>>
       /\ DraftFrame

\* ----------------------------------------------------------------- GET /m/{id}
\* handlePublished
DraftPublished(p, id) ==
    LET r == [op |-> "draftPublished", id |-> id]
    IN /\ Free(p)
       /\ IF PublishedKey(id) \in DOMAIN pages
          THEN Answer(p, r, [html |-> pages[PublishedKey(id)].html], 200)
          ELSE Answer(p, r, [heading |-> "Memorial Not Found"], 404)
       /\ UNCHANGED <<pages, nextDraft, telegram>>
       /\ DraftFrame

\* ------------------------------------------------ GET/POST /api/approve/{id}
\* handleApprove: the token must be present
DraftApprove(p, id, token) ==
    LET r == [op |-> "draftApprove", id |-> id, token |-> token]
    IN /\ Free(p)
       /\ IF token = NoToken
          THEN Answer(p, r, [heading |-> "Missing Token"], 400)
          ELSE Accept(p, r, "d_getDraft", NoLoc)
       /\ UNCHANGED <<pages, nextDraft, telegram>>
       /\ DraftFrame

\* const draftJson = await env.PAGES.get(`draft:${id}`), then the token check
DraftGetDraft(p) ==
    /\ pc[p] = "d_getDraft"
    /\ IF DraftKey(req[p].id) \in DOMAIN pages
       THEN IF InvalidToken(pages[DraftKey(req[p].id)], req[p].token)
            THEN Return(p, [heading |-> "Invalid Token"], 403)
            ELSE Goto(p, "d_putPublished", [draft |-> pages[DraftKey(req[p].id)]])
       ELSE Goto(p, "d_getPublished", NoLoc)
    /\ UNCHANGED <<pages, nextDraft, telegram>>
    /\ DraftFrame

\* variant: the repeated approval posts the notification again
DraftGetPublished_renotify(p) ==
    /\ pc[p] = "d_getPublished"
    /\ telegram' = Append(telegram, req[p].id)
    /\ Return(p, successPage("Memorial", req[p].id, TRUE), 200)
    /\ UNCHANGED <<pages, nextDraft>>
    /\ DraftFrame

\* const published = await env.PAGES.get(`published:${id}`)
DraftGetPublished(p) ==
    /\ pc[p] = "d_getPublished"
    /\ IF PublishedKey(req[p].id) \in DOMAIN pages
       THEN Return(p, successPage(pages[PublishedKey(req[p].id)].data.name, req[p].id, TRUE), 200)
       ELSE Return(p, [heading |-> "Draft Not Found"], 404)
    /\ UNCHANGED <<pages, nextDraft, telegram>>
    /\ DraftFrame

\* variant: the draft is deleted before the published record is written
DraftPutPublished_deleteFirst(p) ==
    /\ pc[p] = "d_putPublished"
    /\ pages' = Delete(pages, DraftKey(req[p].id))
    /\ Goto(p, "d_deleteDraft", loc[p])
    /\ UNCHANGED <<nextDraft, telegram>>
    /\ DraftFrame

\* await env.PAGES.put(`published:${id}`, JSON.stringify(published))
DraftPutPublished(p) ==
    /\ pc[p] = "d_putPublished"
    /\ pages' = Put(pages, PublishedKey(req[p].id), PublishedRecord(loc[p].draft))
    /\ Goto(p, "d_deleteDraft", loc[p])
    /\ UNCHANGED <<nextDraft, telegram>>
    /\ DraftFrame

\* await env.PAGES.delete(`draft:${id}`)
DraftDeleteDraft(p) ==
    /\ pc[p] = "d_deleteDraft"
    /\ pages' = Delete(pages, DraftKey(req[p].id))
    /\ Goto(p, "d_notify", loc[p])
    /\ UNCHANGED <<nextDraft, telegram>>
    /\ DraftFrame

\* try { await sendTelegramNotification(...) } catch (e) { ... }, then the
\* success page: the message is posted unless the bot token is missing or the
\* fetch throws
DraftNotify(p, outcome) ==
    /\ pc[p] = "d_notify"
    /\ telegram' = IF outcome = "sent" THEN Append(telegram, req[p].id) ELSE telegram
    /\ Return(p, successPage(loc[p].draft.data.name, req[p].id, FALSE), 200)
    /\ UNCHANGED <<pages, nextDraft>>
    /\ DraftFrame

StartDraft(p) ==
    \/ \E body \in DraftBodies : DraftSubmit(p, body)
    \/ \E id \in DraftIds : DraftPreview(p, id)
    \/ \E id \in DraftIds : DraftPublished(p, id)
    \/ \E id \in DraftIds, token \in {NoToken} \cup DraftTokens : DraftApprove(p, id, token)

StepDraft(p) ==
    \/ DraftPutDraft(p)
    \/ DraftGetDraft(p)
    \/ DraftGetPublished(p)
    \/ DraftPutPublished(p)
    \/ DraftDeleteDraft(p)
    \/ \E outcome \in NotifyOutcomes : DraftNotify(p, outcome)

\* one request at a time, whose handler may die between two awaits
NextDraft ==
    \E p \in Procs :
        \/ Alone(p) /\ (StartDraft(p) \/ StepDraft(p))
        \/ Crash(p)

SpecDraft == Init /\ [][NextDraft]_vars

\* overlapping submit and approve requests, whose handlers may die between two
\* awaits: one body, any token, a bot token that is configured
StartDraftRace(p) ==
    \/ DraftSubmit(p, [json |-> TRUE, name |-> "ann", story |-> "s1"])
    \/ \E id \in DraftIds, token \in DraftTokens : DraftApprove(p, id, token)

StepDraftRace(p) ==
    \/ DraftPutDraft(p)
    \/ DraftGetDraft(p)
    \/ DraftGetPublished(p)
    \/ DraftPutPublished(p)
    \/ DraftDeleteDraft(p)
    \/ DraftNotify(p, "sent")

NextDraftRace ==
    \E p \in Procs :
        StartDraftRace(p) \/ StepDraftRace(p) \/ Crash(p)

SpecDraftRace == Init /\ [][NextDraftRace]_vars

\* ===================================================================== claims
Items(list) == {list[i] : i \in 1..Len(list)}

Pending(slug) == GetList(pending, slug)

Approved(slug) == GetList(memories, slug)

\* the step just taken sent the response of an op request
Answered(op) == last.req.op = op /\ last.status # 0

\* C1: every item that enters the approved sequence memories:{slug} is put there
\* by the final write of an approve handler, which has passed the token check
\* and taken the item from pending:{slug}; no submit changes the approved
\* sequence.
C1_OnlyApprovePublishes ==
    [][\A s \in Slugs :
          /\ \A m \in Items(Approved(s))' \ Items(Approved(s)) :
                \E p \in Procs : /\ pc[p] = "a_putMemories"
                                 /\ pc'[p] = "idle"
                                 /\ req[p].slug = s
                                 /\ m \in Items(loc[p].approved)
          /\ \A p \in Procs :
                req[p].op \in {"submit", "legacySubmit"} /\ req[p].slug = s
                    => Approved(s)' = Approved(s)]_vars

\* C2: no item id is both in the pending and in the approved sequence of a
\* collection.
C2_NeverInBoth ==
    \A s \in Slugs : IdsOf(Pending(s)) \cap IdsOf(Approved(s)) = {}

\* C3: an item in the approved sequence stays there in the next state and is
\* not in the pending sequence.
C3_ApprovedStays ==
    [][\A s \in Slugs : \A id \in IdsOf(Approved(s)) :
          /\ id \in IdsOf(Approved(s))'
          /\ id \notin IdsOf(Pending(s))']_vars

\* the request of the response just sent carried no token, a token other than
\* the stored one, or named a collection without admin record
BadToken(r) ==
    \/ r.token = NoToken
    \/ r.slug \notin DOMAIN admin
    \/ admin[r.slug].token # r.token

\* C4: listPending, approve and reject answered for a request with a missing or
\* wrong token, or for a collection without admin record, return 403 with an
\* error body, never the pending sequence or a success result.
C4_BadTokenRefused ==
    \A op \in ModerationOps :
        Answered(op) /\ BadToken(last.req)
            => /\ last.status = 403
               /\ DOMAIN last.json = {"error"}

\* C4 witness: an approve with a wrong token is refused although its target
\* item is pending and the collection has an admin record.
C4_Witness ==
    /\ Answered("approve")
    /\ last.status = 403
    /\ last.req.token # NoToken
    /\ last.req.slug \in DOMAIN admin
    /\ last.req.memoryId \in IdsOf(Pending(last.req.slug))

\* admin tokens issued so far that are no longer stored for any collection
Retired == (1..(nextToken - 1)) \ {admin[s].token : s \in DOMAIN admin}

\* C5: a successful provisionAdmin leaves its newly issued token stored, a token
\* never issued before; a moderation request that presents a token overwritten
\* by a later provisionAdmin is refused with 403.
C5_Reprovision ==
    /\ Answered("provisionAdmin") /\ last.status = 200
           => /\ last.req.slug \in DOMAIN admin
              /\ admin[last.req.slug].token = last.json.token
              /\ last.json.token = nextToken - 1
              /\ last.json.token \notin Retired
    /\ \A op \in ModerationOps :
           Answered(op) /\ last.req.token \in Retired => last.status = 403

\* C5 witness: listPending with the first token is refused after the second
\* provisionAdmin.
C5_Witness ==
    /\ Answered("listPending")
    /\ last.req.token \in Retired
    /\ last.status = 403
    /\ Pending(last.req.slug) # <<>>

\* C6: a provisionAdmin with a missing or wrong master key returns 403 and the
\* step leaves every admin record as it was.
C6_BadMasterKey ==
    [][ /\ last'.req.op = "provisionAdmin"
        /\ last'.req.masterKey # MASTER_ADMIN_KEY
        => /\ last'.status = 403
           /\ admin' = admin ]_vars

\* C6 witness: a provisionAdmin with a wrong key is refused for a collection
\* that has an admin record.
C6_Witness ==
    /\ Answered("provisionAdmin")
    /\ last.req.masterKey = "guess"
    /\ last.status = 403
    /\ last.req.slug \in DOMAIN admin

\* the value of form field k, the empty string when the field is missing
Field(form, k) == IF k \in DOMAIN form THEN form[k] ELSE <<>>

\* the pending items of the collection with the id of item m
Stored(m, slug) == {x \in Items(Pending(slug)) : x.id = m.id}

\* C7 as claimed: after a successful submit the pending sequence holds the new
\* item exactly once, with every submitted field (name, relationship, text) as
\* it was sent, and an authorized listPending returns the pending sequence.
C7_Verbatim ==
    /\ Answered("submit") /\ last.status = 200
           => /\ Count(Pending(last.req.slug), last.loc.memory.id) = 1
              /\ \A x \in Stored(last.loc.memory, last.req.slug) :
                     \A k \in DOMAIN last.req.form \cap {"name", "relationship", "memory"} :
                         x[k] = last.req.form[k]
    /\ Answered("listPending") /\ last.status = 200
           => last.json = Pending(last.req.slug)

\* C7 amended: after a successful submit through handleRequest the pending
\* sequence holds the new item exactly once, with the trimmed name (Anonymous
\* when that is empty), the trimmed relationship and the trimmed text as its
\* field values, and an authorized listPending run next returns exactly the
\* pending sequence.
C7_Trimmed ==
    /\ Answered("submit") /\ last.status = 200
           => /\ Count(Pending(last.req.slug), last.loc.memory.id) = 1
              /\ \A x \in Stored(last.loc.memory, last.req.slug) :
                     /\ x.name = IF Trim(Field(last.req.form, "name")) = <<>>
                                 THEN Anonymous
                                 ELSE Trim(Field(last.req.form, "name"))
                     /\ x.relationship = Trim(Field(last.req.form, "relationship"))
                     /\ x.memory = Trim(Field(last.req.form, "memory"))
                     /\ x.memory # <<>>
    /\ Answered("listPending") /\ last.status = 200
           => last.json = Pending(last.req.slug)

\* C7 witness: a submit whose fields carry surrounding whitespace has succeeded
\* and its item is pending.
C7_Witness ==
    /\ Answered("submit")
    /\ last.status = 200
    /\ Field(last.req.form, "name") # Trim(Field(last.req.form, "name"))
    /\ Count(Pending(last.req.slug), last.loc.memory.id) = 1

\* C8: a submit whose text is empty or only whitespace is answered 400, and no
\* item of a pending or approved sequence has empty text.
C8_NoEmptyText ==
    /\ \A op \in {"submit", "legacySubmit"} :
           Answered(op) /\ Trim(Field(last.req.form, "memory")) = <<>>
               => last.status = 400
    /\ \A s \in Slugs : \A x \in Items(Pending(s)) \cup Items(Approved(s)) :
           Trim(x.memory) # <<>>

\* the request of the response just sent carried a photo of more than 5 MiB
Oversized(r) == "photo" \in DOMAIN r.form /\ r.form.photo.size > 5 * 1024 * 1024

\* C9: a submit with a photo of more than 5 MiB is answered 400 and its step
\* leaves the store (photos, pending, approved) as it was; a submit with text
\* and a photo of exactly 5 MiB is never answered 400, and when it is answered
\* 200 its photo is stored.
C9_PhotoLimit ==
    [][ /\ \A op \in {"submit", "legacySubmit"} :
               last'.req.op = op /\ last'.status # 0 /\ Oversized(last'.req)
                   => last'.status = 400 /\ store' = store
        /\ /\ last'.req.op = "submit"
           /\ last'.status # 0
           /\ Trim(Field(last'.req.form, "memory")) # <<>>
           /\ "photo" \in DOMAIN last'.req.form
           /\ last'.req.form.photo.size = 5 * 1024 * 1024
           => /\ last'.status # 400
              /\ last'.status = 200
                     => PhotoKey(last'.req.slug, last'.loc.memory.id) \in DOMAIN photo' ]_vars

\* C9 witness: a submit with text and an oversized photo has been refused.
C9_Witness ==
    /\ Answered("submit")
    /\ Oversized(last.req)
    /\ Trim(Field(last.req.form, "memory")) # <<>>
    /\ last.status = 400

\* C10: the step that completes a successful approve leaves the approved
\* sequence equal to the previously approved items followed by the item, which
\* is then in approved exactly once and no longer in pending; the item it moves
\* is the pending item with the requested id, field for field.
C10_ApproveMoves ==
    [][ /\ last'.req.op = "approve" /\ last'.status = 200
           => /\ GetList(memories', last'.req.slug) =
                     Append(GetList(memories, last'.req.slug), last'.loc.memory)
              /\ last'.loc.memory.id = last'.req.memoryId
              /\ Count(GetList(memories', last'.req.slug), last'.req.memoryId) = 1
              /\ Count(GetList(pending', last'.req.slug), last'.req.memoryId) = 0
        /\ \A p \in Procs :
              pc[p] = "a_putPending" /\ pc'[p] = "a_putMemories"
                  => /\ loc[p].memory \in Items(Pending(req[p].slug))
                     /\ loc[p].memory.id = req[p].memoryId
                     /\ Len(Pending(req[p].slug)') = Len(Pending(req[p].slug)) - 1 ]_vars

\* C10 witness: an approve has succeeded on a collection that already had an
\* approved item.
C10_Witness ==
    /\ Answered("approve")
    /\ last.status = 200
    /\ Len(Approved(last.req.slug)) >= 2

\* C11: an approve or reject with a valid token whose item id is already in the
\* approved sequence is answered 404 and its step leaves pending, approved,
\* admin records and photos as they were.
C11_AfterApprove ==
    [][ /\ last'.req.op \in {"approve", "reject"}
        /\ last'.status # 0
        /\ ~BadToken(last'.req)
        /\ last'.req.memoryId \in IdsOf(Approved(last'.req.slug))
        => /\ last'.status = 404
           /\ store' = store ]_vars

\* C11 witness: a reject of an approved item is answered 404 while another item
\* is pending.
C11_Witness ==
    /\ Answered("reject")
    /\ last.status = 404
    /\ ~BadToken(last.req)
    /\ last.req.memoryId \in IdsOf(Approved(last.req.slug))
    /\ Pending(last.req.slug) # <<>>

\* C12: the step that completes a successful reject leaves the item out of
\* pending, leaves the approved sequence as it was and, when the item has a
\* photo reference, leaves no photo under its key; a photo key is only ever
\* written for the id issued last, so a deleted photo does not come back; and
\* GET /api/photo/{key} for a key without photo answers 404.
C12_RejectDiscards ==
    [][ /\ last'.req.op = "reject" /\ last'.status = 200
           => /\ last'.loc.rejected.id = last'.req.memoryId
              /\ Count(GetList(pending', last'.req.slug), last'.req.memoryId) = 0
              /\ memories' = memories
              /\ "photoUrl" \in DOMAIN last'.loc.rejected
                     => PhotoKey(last'.req.slug, last'.req.memoryId) \notin DOMAIN photo'
        /\ \A k \in DOMAIN photo' \ DOMAIN photo : k[2] = nextId - 1
        /\ last'.req.op = "photo" /\ last'.req.key \notin DOMAIN photo
               => last'.status = 404 ]_vars

\* C12 witness: a reject of an item with a photo has succeeded and the photo is
\* gone.
C12_Witness ==
    /\ Answered("reject")
    /\ last.status = 200
    /\ "photoUrl" \in DOMAIN last.loc.rejected
    /\ PhotoKey(last.req.slug, last.req.memoryId) \notin DOMAIN photo

\* C13: whenever no reject stands between its photo delete and its pending
\* write, every item of a pending or approved sequence that carries a photo
\* reference has its photo in the store.
C13_PhotosKept ==
    (\A p \in Procs : pc[p] # "r_putPending")
        => \A s \in Slugs : \A x \in Items(Pending(s)) \cup Items(Approved(s)) :
               "photoUrl" \in DOMAIN x => KeyOfUrl(x.photoUrl) \in DOMAIN photo

\* C14: an approve that has found its item in pending goes on to the approved
\* write only when the approved sequence it read does not hold the id;
\* otherwise its last step answers 409, writes the pending sequence without
\* the item and leaves the approved sequence as it was.  No write of an
\* approve leaves an id twice in the approved sequence.
C14_DuplicateGuard ==
    [][ /\ \A p \in Procs :
               pc[p] = "a_getMemories" /\ pc'[p] \notin {"idle", "a_getMemories"}
                   => (pc'[p] = "a_putPendingDup"
                           <=> req[p].memoryId \in IdsOf(Approved(req[p].slug)))
        /\ \A p \in Procs :
               pc[p] = "a_putPendingDup" /\ pc'[p] = "idle" /\ last'.status # 0
                   => /\ last'.status = 409
                      /\ DOMAIN last'.json = {"error"}
                      /\ Count(GetList(pending', req[p].slug), req[p].memoryId) = 0
                      /\ memories' = memories
        /\ last'.req.op = "approve" /\ last'.status = 409
               => \E p \in Procs : pc[p] = "a_putPendingDup" /\ pc'[p] = "idle"
        /\ last'.req.op = "approve" /\ last'.status = 200
               => Count(GetList(memories', last'.req.slug), last'.req.memoryId) = 1 ]_vars

\* C14 witness: an approve has been answered 409, its id is in the approved
\* sequence once and not in pending.
C14_Witness ==
    /\ Answered("approve")
    /\ last.status = 409
    /\ Count(Approved(last.req.slug), last.req.memoryId) = 1
    /\ Count(Pending(last.req.slug), last.req.memoryId) = 0

\* C15: no read answered while a moderation call is between its writes shows
\* a partial state: a listApproved answered while an approve has written
\* pending but not yet memories returns the item unless it is still pending,
\* and a photo fetch answered while a reject has deleted the photo of an item
\* still in pending finds the photo.
C15_Atomic ==
    /\ Answered("listApproved")
           => \A p \in Procs :
                  pc[p] = "a_putMemories" /\ req[p].slug = last.req.slug
                      => req[p].memoryId \in
                             IdsOf(last.json) \cup IdsOf(Pending(last.req.slug))
    /\ Answered("photo")
           => \A p \in Procs :
                  /\ pc[p] = "r_putPending"
                  /\ "photoUrl" \in DOMAIN loc[p].rejected
                  /\ KeyOfUrl(loc[p].rejected.photoUrl) = last.req.key
                  /\ req[p].memoryId \in IdsOf(Pending(req[p].slug))
                  => last.status = 200

\* C16: a reject never returns success for an item that an approve has put
\* into the approved sequence, so that no item is both approved and rejected
\* with success.
C16_OneTransition ==
    [][ last'.req.op = "reject" /\ last'.status = 200
            => last'.req.memoryId \notin IdsOf(GetList(memories', last'.req.slug)) ]_vars

\* C17: whatever the notification attempt meets (no bot token, request sent,
\* fetch throwing), the submit that reached it answers 200 with success, and
\* its item is in the pending sequence from before the attempt on.
C17_NotifyNeverFails ==
    /\ Answered("submit") /\ "notify" \in DOMAIN last.loc
           => /\ last.status = 200
              /\ last.json.success
              /\ Count(Pending(last.req.slug), last.loc.memory.id) = 1
    /\ \A p \in Procs :
           pc[p] = "s_notify" => Count(Pending(req[p].slug), loc[p].memory.id) = 1

\* C17 witness: a submit whose Telegram request threw has answered 200.
C17_Witness ==
    /\ Answered("submit")
    /\ "notify" \in DOMAIN last.loc
    /\ last.loc.notify = "fetchThrew"
    /\ last.status = 200

\* C18: the 403 answer to a moderation request that carries a token has the
\* message given for a wrong token, also when the collection has no admin
\* record.
C18_SameMessage ==
    \A op \in ModerationOps :
        Answered(op) /\ last.status = 403 /\ last.req.token # NoToken
            => last.json.error = "Invalid token"

\* C19: every 500 response has the same generic body, without detail of the
\* exception.
C19_Generic500 ==
    last.status = 500 => last.json = [error |-> "Internal server error"]

\* C20: a moderation handler whose request has a missing or wrong token, or
\* names a collection without admin record, ends at the token check: it
\* answers 403 with nothing read into its locals, and neither taking the
\* request nor the check changes pending, approved, admin records or photos.
C20_AuthShortCircuit ==
    [][ \A p \in Procs :
          /\ pc[p] = "auth" /\ BadToken(req[p]) /\ pc'[p] # "auth"
                => /\ pc'[p] = "idle"
                   /\ last'.status = 403
                   /\ last'.loc = NoLoc
                   /\ store' = store
          /\ pc[p] = "idle" /\ pc'[p] = "auth" => store' = store ]_vars

\* C20 witness: a reject with a wrong token is refused while its target is
\* pending with a stored photo.
C20_Witness ==
    /\ Answered("reject")
    /\ last.status = 403
    /\ last.req.token # NoToken
    /\ last.req.memoryId \in IdsOf(Pending(last.req.slug))
    /\ PhotoKey(last.req.slug, last.req.memoryId) \in DOMAIN photo

\* list a is an initial part of list b
IsPrefix(a, b) == Len(a) <= Len(b) /\ SubSeq(b, 1, Len(a)) = a

\* C21: a listApproved request carries no token, is answered 200 with exactly
\* the approved sequence of its collection (empty when there is none) and
\* changes no stored key; every step keeps the approved sequence as an initial
\* part of the next one, so its order is the order of the writes.
C21_ListApproved ==
    [][ /\ last'.req.op = "listApproved"
           => /\ "token" \notin DOMAIN last'.req
              /\ last'.status = 200
              /\ last'.json = GetList(memories, last'.req.slug)
              /\ store' = store
        /\ \A s \in Slugs : IsPrefix(Approved(s), Approved(s)') ]_vars

\* C21 witness: listApproved has returned a sequence of two items.
C21_Witness ==
    /\ Answered("listApproved")
    /\ last.status = 200
    /\ Len(last.json) >= 2
    /\ last.json = Approved(last.req.slug)

\* the items of both sequences of a collection
AllItems(slug) == Pending(slug) \o Approved(slug)

\* C22: the 200 response of a submit carries the id of the stored item, and
\* no other item of the collection has that id.
C22_ReturnsId ==
    Answered("submit") /\ last.status = 200
        => /\ "id" \in DOMAIN last.json
           /\ last.json.id = last.loc.memory.id
           /\ Count(AllItems(last.req.slug), last.loc.memory.id) = 1

\* the half of C22 that does hold with one request at a time: no id occurs
\* twice among the items of a collection
IdsUnique ==
    \A s \in Slugs : \A id \in IdsOf(AllItems(s)) : Count(AllItems(s), id) = 1

\* C24: every write of a handler replaces the whole stored sequence by the
\* copy the handler computed from its own earlier read, whatever other
\* requests have written since: an id that another approve has put into the
\* approved sequence after that read is gone after the write, and an id it
\* has taken out of pending is back.
C24_LastWriteWins ==
    [][ \A p \in Procs :
          /\ pc[p] = "a_putMemories" /\ pc'[p] = "idle"
                => GetList(memories', req[p].slug) = loc[p].approved
          /\ pc[p] \in {"a_putPending", "a_putPendingDup", "r_putPending", "s_putPending"}
             /\ pc'[p] # pc[p]
                => GetList(pending', req[p].slug) = loc[p].pending ]_vars

\* C24 witness: an approve has returned success for an item while another
\* approve, which read the same pending snapshot and an approved sequence
\* without that item, is about to write both of its copies.
C24_Witness ==
    /\ Answered("approve")
    /\ last.status = 200
    /\ \E p \in Procs :
           /\ req[p].op = "approve"
           /\ pc[p] = "a_putPending"
           /\ req[p].slug = last.req.slug
           /\ Items(loc[p].pending) \cup {loc[p].memory}
                  = Items(last.loc.pending) \cup {last.loc.memory}
           /\ last.req.memoryId \in IdsOf(loc[p].pending)
           /\ last.req.memoryId \notin IdsOf(loc[p].approved)
           /\ last.req.memoryId \in IdsOf(Approved(last.req.slug))

\* C25: an id leaves the pending sequence of a collection only in the pending
\* write of an approve or reject of that id, once the submit that created it
\* has returned.
C25_PendingKept ==
    [][ \A s \in Slugs : \A id \in IdsOf(Pending(s)) \ IdsOf(Pending(s)') :
          \/ \E p \in Procs : /\ req[p].op \in {"approve", "reject"}
                               /\ req[p].memoryId = id
                               /\ pc[p] \in {"a_putPending", "a_putPendingDup", "r_putPending"}
                               /\ pc'[p] # pc[p]
          \/ \E p \in Procs : /\ req[p].op = "submit"
                               /\ pc[p] # "idle"
                               /\ loc[p].memory.id = id ]_vars

\* C27: the approved sequence of a collection changes only in the last write
\* of an approve; a step of a submit or of provisionAdmin leaves the pending
\* items there were in place, as an initial part of the pending sequence.
C27_Frame ==
    [][ \A s \in Slugs :
          /\ Approved(s)' # Approved(s)
                => \E p \in Procs : /\ req[p].op = "approve"
                                     /\ req[p].slug = s
                                     /\ pc[p] = "a_putMemories"
                                     /\ pc'[p] = "idle"
                                     /\ last'.status = 200
          /\ (\/ last'.req.op \in {"submit", "legacySubmit", "provisionAdmin"}
              \/ \E p \in Procs : /\ req[p].op \in {"submit", "legacySubmit"}
                                   /\ pc'[p] # pc[p])
                => IsPrefix(Pending(s), Pending(s)') ]_vars

\* the stored keys of collection s: its pending and approved sequences, its
\* admin record and its photos
KeysOf(pend, mem, adm, ph, s) ==
    [pending |-> GetList(pend, s),
     memories |-> GetList(mem, s),
     admin |-> IF s \in DOMAIN adm THEN <<adm[s]>> ELSE <<>>,
     photo |-> {<<k, ph[k]>> : k \in {x \in DOMAIN ph : x[1] = s}}]

\* C26: a step of a request for one collection leaves the keys of every other
\* collection as they were, and a moderation request that is not refused with
\* 403 presented the token stored for its own collection.
C26_Isolated ==
    [][ /\ \A p \in Procs : \A b \in TwoSlugs :
              /\ pc'[p] # pc[p]
              /\ b # (IF pc[p] = "idle" THEN req'[p].slug ELSE req[p].slug)
              => KeysOf(pending', memories', admin', photo', b)
                     = KeysOf(pending, memories, admin, photo, b)
        /\ \A b \in TwoSlugs :
              last'.req.op # "none" /\ b # last'.req.slug
              => KeysOf(pending', memories', admin', photo', b)
                     = KeysOf(pending, memories, admin, photo, b)
        /\ last'.req.op \in ModerationOps /\ last'.status \notin {0, 403}
              => /\ last'.req.slug \in DOMAIN admin
                 /\ admin[last'.req.slug].token = last'.req.token ]_vars

\* C26 witness: the token of one collection, presented for another collection
\* that has its own admin record and a pending item, has been refused.
C26_Witness ==
    /\ last.req.op \in ModerationOps
    /\ last.status = 403
    /\ last.req.slug \in DOMAIN admin
    /\ Pending(last.req.slug) # <<>>
    /\ \E a \in DOMAIN admin \ {last.req.slug} : admin[a].token = last.req.token

\* the API request just answered had to pass checkAuth and did not carry the
\* configured key
Unauthorized ==
    /\ last.req.op = "api"
    /\ last.req.method # "OPTIONS"
    /\ ~(last.req.path = "/api/health" /\ last.req.method = "GET")
    /\ last.req.apiKey # API_KEY

\* C23: in the API worker every request other than GET /api/health and the
\* OPTIONS preflight whose X-API-Key is missing or differs from env.API_KEY is
\* answered 401 and runs no handler: the step that answers it makes no Claude
\* call, no R2 write and no page build.
C23_AuthFirst == [][Unauthorized' => last'.status = 401 /\ api' = api]_vars

\* a request without the key has been refused after handlers ran for others
C23_Witness ==
    /\ Unauthorized
    /\ last.req.apiKey = ""
    /\ last.req.path = "/api/generate"
    /\ last.req.method = "POST"
    /\ last.req.body = [kind |-> "json", name |-> "ann"]
    /\ last.status = 401
    /\ api.claude > 0

HasDraft(id) == DraftKey(id) \in DOMAIN pages

HasPublished(id) == PublishedKey(id) \in DOMAIN pages

\* handler p takes a step of its own, which is not its death
Steps(p) == pc'[p] # pc[p] /\ ~(pc'[p] = "idle" /\ last'.status = 0)

\* C28: published:{id} is written only by the put of a handleApprove that found
\* draft:{id} and was given that draft's token; an approve without a token is
\* answered 400, one with another token than the existing draft's 403, and
\* neither changes draft:{id} or published:{id}; GET /m/{id} answers 404 as
\* long as published:{id} is absent, that is until such an approve has written it.
C28_TokenGuardsPublish ==
    [][/\ \A id \in DraftIds :
              (HasPublished(id)' /\ (HasPublished(id) => pages'[PublishedKey(id)] # pages[PublishedKey(id)]))
                  => \E p \in Procs : /\ pc[p] = "d_putPublished"
                                       /\ req[p] \in [op : {"draftApprove"}, id : {id}, token : DraftTokens]
                                       /\ HasDraft(id)
                                       /\ loc[p].draft = pages[DraftKey(id)]
                                       /\ pages[DraftKey(id)].token = req[p].token
       /\ \A p \in Procs :
              pc[p] = "d_getDraft" /\ Steps(p) /\ HasDraft(req[p].id)
                  /\ pages[DraftKey(req[p].id)].token # req[p].token
                  => last'.status = 403 /\ pc'[p] = "idle" /\ pages' = pages
       /\ last'.req.op = "draftApprove" /\ last'.status # 0 /\ last'.req.token = NoToken
              => last'.status = 400 /\ last'.loc = NoLoc /\ pages' = pages
       /\ last'.req.op = "draftApprove" /\ last'.status \in {400, 403}
              => pages' = pages /\ "draft" \notin DOMAIN last'.loc
       /\ last'.req.op = "draftPublished" /\ last'.status # 0
              => last'.status = (IF HasPublished(last'.req.id) THEN 200 ELSE 404)]_vars

\* an approve with the token of another draft has been refused while the draft
\* exists unpublished, after another draft was published
C28_Witness ==
    /\ last.req.op = "draftApprove"
    /\ last.status = 403
    /\ HasDraft(last.req.id)
    /\ ~HasPublished(last.req.id)
    /\ \E id \in DraftIds : HasPublished(id)

\* C29: once draft:{id} is absent and published:{id} present they stay so, and
\* a handleApprove that runs with a token in such a state goes from its read
\* of the draft to its read of the published record and answers the 200
\* 'Already Published' page, whatever the token; its steps change neither the
\* pages nor the messages posted to Telegram.
C29_Idempotent ==
    [][\A id \in DraftIds :
          ~HasDraft(id) /\ HasPublished(id)
              => /\ ~HasDraft(id)' /\ HasPublished(id)'
                 /\ pages'[PublishedKey(id)] = pages[PublishedKey(id)]
                 /\ \A p \in Procs :
                        req[p].op = "draftApprove" /\ req[p].id = id /\ Steps(p)
                            /\ pc[p] \in {"d_getDraft", "d_getPublished"}
                            => /\ telegram' = telegram
                               /\ pc[p] = "d_getDraft" => pc'[p] = "d_getPublished"
                               /\ pc[p] = "d_getPublished"
                                      => /\ last'.status = 200
                                         /\ last'.json.heading = "Already Published"
                                         /\ last'.req = req[p]]_vars

\* the 'Already Published' page has been sent to a caller whose token is not
\* the one the draft had
C29_Witness ==
    /\ last.req.op = "draftApprove"
    /\ last.status = 200
    /\ last.json.heading = "Already Published"
    /\ HasPublished(last.req.id)
    /\ pages[PublishedKey(last.req.id)].data.name = "ann"
    /\ last.req.id = generateSlug("ann", 1)
    /\ last.req.token = 2

\* C30: once draft:{id} is stored, every later state holds draft:{id} or
\* published:{id}, also between the two writes of handleApprove and after a
\* handler has died; the put of handleApprove writes the html of the draft it
\* read, and when an approval completes published:{id} holds that html.
C30_NeverLost ==
    [][\A id \in DraftIds :
          /\ HasDraft(id) \/ HasPublished(id) => HasDraft(id)' \/ HasPublished(id)'
          /\ \A p \in Procs :
                 pc[p] = "d_getDraft" /\ pc'[p] = "d_putPublished" /\ req[p].id = id
                     => HasDraft(id) /\ loc'[p].draft = pages[DraftKey(id)]
          /\ last'.req.op = "draftApprove" /\ last'.req.id = id /\ last'.status = 200
                 /\ last'.json.heading = "Memorial Published!"
                 => /\ HasPublished(id)' /\ ~HasDraft(id)'
                    /\ pages'[PublishedKey(id)].html = last'.loc.draft.html]_vars

\* a handler has died between the two writes of handleApprove: the draft and
\* the published record are both there and no request is in flight
C30_Witness ==
    /\ \E id \in DraftIds : HasDraft(id) /\ HasPublished(id)
    /\ \A p \in Procs : pc[p] = "idle"
    /\ last.req.op = "draftApprove"
    /\ last.status = 0

====
